---- MODULE Spec2Model ----
(***************************************************************************)
(* Model of kplr/ld.py: the limb-darkening coefficient lookup              *)
(* (get_quad_coeffs, LDCoeffAdaptor.get_coeffs) and the provisioning of    *)
(* its local SQLite file (download_database).                              *)
(*                                                                         *)
(* Optional values (Python None, SQL NULL, a missing file) are sequences:  *)
(* <<>> is the absent value and <<v>> the present value v.                 *)
(***************************************************************************)
EXTENDS Integers, Sequences, FiniteSets, TLC

\* ------------------------------------------------------------------ bounds
MaxRows == 3        \* rows of a table drawn for the lookup specification
NChunks == 2        \* pieces in which a body reaches the disk

\* The values teff, logg and feh take in tables and queries. Three teff
\* values give a query halfway between two grid temperatures.
TeffValues == {0, 1, 2}
LoggValues == {0, 1}
FehValues == {0, 1}

Procs == {"p1", "p2"}

None == <<>>
Some(v) == <<v>>

\* ------------------------------------------------------- files and tables
\* filename = os.path.join(data_root, DB_FILENAME)
Target == <<"ldcoeffs.db">>

\* f.name of the NamedTemporaryFile of process p (mkstemp names are unique)
TempFileNameIsTarget(p) == Target
TempFileNameFixed(p) == <<"tmp", "p1">>
TempFileName(p) == <<"tmp", p>>

FileNames == {Target} \cup {TempFileName(p) : p \in Procs}

\* One row of claret11. mu1 and mu2 carry the position of the row in the
\* table, so that a returned pair identifies the row it was taken from.
Row(t, l, f, i) == [teff |-> t, logg |-> l, feh |-> f, mu1 |-> i, mu2 |-> 0 - i]

GridPoints == TeffValues \X LoggValues \X FehValues

MkTable(g) == [i \in 1..Len(g) |-> Row(g[i][1], g[i][2], g[i][3], i)]

AllTables == {MkTable(g) : g \in UNION {[1..n -> GridPoints] : n \in 0..MaxRows}}

\* The bodies the server answers with in the provisioning specifications:
\* an empty table and a two-row table.
ServedTables ==
    { MkTable(<< >>),
      MkTable(<< <<0, 1, 0>>, <<2, 0, 0>> >>) }

\* A file on disk: the table it was written from and how much of it arrived.
File(rows, written) == [rows |-> rows, written |-> written]
CompleteFile(rows) == File(rows, NChunks)
IsComplete(f) == f.written = NChunks

\* ----------------------------------------------------------------- queries
Opt(S) == {None} \cup {Some(v) : v \in S}

Query(t, l, f) == [teff |-> t, logg |-> l, feh |-> f]

AllQueries == {Query(t, l, f) : t \in Opt(TeffValues), l \in Opt(LoggValues),
                                f \in Opt(FehValues)}

\* The queries used while provisioning is being explored: teff absent, the
\* default call (teff only) and a full query.
ProvQueries == { Query(None, None, None),
                 Query(Some(1), None, None),
                 Query(Some(1), Some(1), Some(0)) }

\* ------------------------------------------------------- SQL value algebra
\* Arithmetic on NULL yields NULL.
SqlSub(a, b) == IF a = None \/ b = None THEN None ELSE Some(a[1] - b[1])
SqlMul(a, b) == IF a = None \/ b = None THEN None ELSE Some(a[1] * b[1])
SqlAdd(a, b) == IF a = None \/ b = None THEN None ELSE Some(a[1] + b[1])
SqlAbs(a) == IF a = None THEN None ELSE Some(IF a[1] < 0 THEN 0 - a[1] ELSE a[1])

\* ORDER BY ... ASC: NULL sorts before every value, NULLs are equal.
SqlBefore(a, b) == IF a = None THEN b # None
                   ELSE IF b = None THEN FALSE ELSE a[1] < b[1]

\* ORDER BY key LIMIT 1 over the row numbers idx of a table scanned in
\* storage order, key[i] being the sort key of row i: the first row whose
\* key no other row sorts before.
FirstBy(idx, key) ==
    CHOOSE i \in idx :
        /\ \A j \in idx : ~SqlBefore(key[j], key[i])
        /\ \A j \in idx : (j < i) => SqlBefore(key[i], key[j])

\* abs(teff-?)
TeffKeyNoAbs(rows, q, i) == SqlSub(Some(rows[i].teff), q.teff)
TeffKey(rows, q, i) == SqlAbs(SqlSub(Some(rows[i].teff), q.teff))

\* (logg-?) * (logg-?) + (feh-?) * (feh-?)
DistKeySkipNull(rows, q, i) ==
    LET dl == IF q.logg = None THEN 0 ELSE (rows[i].logg - q.logg[1]) * (rows[i].logg - q.logg[1])
        df == IF q.feh = None THEN 0 ELSE (rows[i].feh - q.feh[1]) * (rows[i].feh - q.feh[1])
    IN  Some(dl + df)
DistKey(rows, q, i) ==
    SqlAdd(SqlMul(SqlSub(Some(rows[i].logg), q.logg),
                  SqlSub(Some(rows[i].logg), q.logg)),
           SqlMul(SqlSub(Some(rows[i].feh), q.feh),
                  SqlSub(Some(rows[i].feh), q.feh)))

\* (SELECT teff FROM claret11 ORDER BY abs(teff-?) LIMIT 1): NULL on an
\* empty table.
NearestTeff(rows, q) ==
    IF Len(rows) = 0 THEN None
    ELSE LET k == [i \in 1..Len(rows) |-> TeffKey(rows, q, i)]
         IN  Some(rows[FirstBy(1..Len(rows), k)].teff)

\* WHERE teff = (...): a comparison with NULL selects no row.
Candidates(rows, q) ==
    LET t == NearestTeff(rows, q)
    IN  IF t = None THEN {} ELSE {i \in 1..Len(rows) : rows[i].teff = t[1]}

\* rows.fetchone() of the whole statement: the number of the selected row,
\* or None when the statement yields no row.
FetchOne(rows, q) ==
    LET c == Candidates(rows, q)
        k == [i \in c |-> DistKey(rows, q, i)]
    IN  IF c = {} THEN None ELSE Some(FirstBy(c, k))

\* ---------------------------------------------------------------- state
VARIABLES
    files,        \* the filesystem: name -> None or Some(file)
    dirExists,    \* data_root exists as a directory
    pc,           \* position of each process in the call it is running
    op,           \* the public entry point a process was called through
    clobber,      \* argument clobber of download_database
    query,        \* arguments teff, logg, feh of the lookup
    handler,      \* body of the HTTP response held by the process
    outcome,      \* return value or exception of the finished call
    adaptor,      \* the process holds an LDCoeffAdaptor (db_filename set)
    gets,         \* HTTP GETs issued by the current call
    sawFile,      \* the target existed when the current call started
    startTarget,  \* the target as it was when the current call started
    mkdirErr,     \* what os.makedirs raised in the current call
    io,           \* kinds of I/O the current call has attempted
    prevFresh     \* path returned by the preceding call, when that call
                  \* was an unforced download into a root without the file

vars == <<files, dirExists, pc, op, clobber, query, handler, outcome, adaptor,
          gets, sawFile, startTarget, mkdirErr, io, prevFresh>>

args == <<op, clobber, query>>
hist == <<sawFile, startTarget, mkdirErr>>

NoOutcome == [kind |-> "none", val |-> <<>>]
Raised(e) == [kind |-> e, val |-> <<>>]
Returned(k, v) == [kind |-> k, val |-> v]

StatusCodes == {200, 204, 404}

\* cap of the counter of GETs of one call
MaxGets == 2

Provisioning == {"download_database", "get_quad_coeffs"}

InitProcs ==
    /\ pc = [p \in Procs |-> "idle"]
    /\ op = [p \in Procs |-> "none"]
    /\ clobber = [p \in Procs |-> FALSE]
    /\ query = [p \in Procs |-> Query(None, None, None)]
    /\ handler = [p \in Procs |-> None]
    /\ outcome = [p \in Procs |-> NoOutcome]
    /\ gets = [p \in Procs |-> 0]
    /\ sawFile = [p \in Procs |-> FALSE]
    /\ startTarget = [p \in Procs |-> None]
    /\ mkdirErr = [p \in Procs |-> "none"]
    /\ io = [p \in Procs |-> {}]
    /\ prevFresh = None

\* Before the first call the root may be missing, empty, or hold a complete
\* file left by an earlier run; no process holds an adaptor yet.
Init ==
    /\ InitProcs
    /\ \E d \in BOOLEAN, t \in {None} \cup {Some(CompleteFile(r)) : r \in ServedTables} :
          /\ (t # None) => d
          /\ dirExists = d
          /\ files = [n \in FileNames |-> IF n = Target THEN t ELSE None]
    /\ adaptor = [p \in Procs |-> FALSE]

\* ------------------------------------------------------ download_database
\* if not clobber and os.path.exists(filename): return filename
EarlyReturnIgnoringFile(c, exists) == ~c
EarlyReturnNever(c, exists) == FALSE
EarlyReturn(c, exists) == ~c /\ exists

\* where control goes when download_database returns filename
AfterDownload(o) == IF o = "get_quad_coeffs" THEN "get_coeffs" ELSE "done"

\* Entry of download_database up to the existence test, for a call made
\* through entry point o.
Enter(p, o, c, q) ==
    LET exists == files[Target] # None
    IN  /\ pc[p] = "idle"
        /\ op' = [op EXCEPT ![p] = o]
        /\ clobber' = [clobber EXCEPT ![p] = c]
        /\ query' = [query EXCEPT ![p] = q]
        /\ sawFile' = [sawFile EXCEPT ![p] = exists]
        /\ startTarget' = [startTarget EXCEPT ![p] = files[Target]]
        /\ io' = [io EXCEPT ![p] = IF c THEN {} ELSE {"fs"}]
        /\ IF EarlyReturn(c, exists)
           THEN /\ pc' = [pc EXCEPT ![p] = AfterDownload(o)]
                /\ outcome' = [outcome EXCEPT ![p] =
                                  IF o = "get_quad_coeffs" THEN NoOutcome
                                  ELSE Returned("path", Target)]
                /\ adaptor' = [adaptor EXCEPT ![p] = @ \/ o = "download_database"]
           ELSE /\ pc' = [pc EXCEPT ![p] = "mkdir"]
                /\ UNCHANGED <<outcome, adaptor>>
        /\ UNCHANGED <<files, dirExists, handler, gets, mkdirErr, prevFresh>>

\* LDCoeffAdaptor(data_root, clobber) / download_database(data_root, clobber)
CallDownload(p, c) == Enter(p, "download_database", c, Query(None, None, None))

\* get_quad_coeffs(teff, logg, feh): a = LDCoeffAdaptor(data_root=data_root)
CallQuad(p, q) == Enter(p, "get_quad_coeffs", FALSE, q)

\* try: os.makedirs(data_root) / except os.error: pass
Makedirs(p) ==
    /\ pc[p] = "mkdir"
    /\ \E ok \in BOOLEAN :
          /\ dirExists' = (dirExists \/ ok)
          /\ mkdirErr' = [mkdirErr EXCEPT ![p] =
                            IF dirExists THEN "EEXIST"
                            ELSE IF ok THEN "none" ELSE "EACCES"]
    /\ pc' = [pc EXCEPT ![p] = "fetch"]
    /\ io' = [io EXCEPT ![p] = @ \cup {"fs"}]
    /\ UNCHANGED <<files, args, handler, outcome, adaptor, gets, sawFile,
                   startTarget, prevFresh>>

\* handler = urllib2.urlopen(r); code = handler.getcode()
\* urlopen raises HTTPError for a status outside 2xx; the function raises
\* RuntimeError for any other status that is not 200.
\* Where the call stands after a status other than 200: the exception
\* leaves download_database, nothing is tried again.
FetchErrorRetry(code) == "fetch"
FetchError(code) == "done"

Fetch(p) ==
    /\ pc[p] = "fetch"
    /\ gets[p] < MaxGets
    /\ gets' = [gets EXCEPT ![p] = @ + 1]
    /\ io' = [io EXCEPT ![p] = @ \cup {"net"}]
    /\ \E code \in StatusCodes, body \in ServedTables :
          IF code = 200
          THEN /\ handler' = [handler EXCEPT ![p] = Some(body)]
               /\ pc' = [pc EXCEPT ![p] = "tmp"]
               /\ UNCHANGED outcome
          ELSE /\ pc' = [pc EXCEPT ![p] = FetchError(code)]
               /\ outcome' = [outcome EXCEPT ![p] =
                                 IF pc'[p] # "done" THEN NoOutcome
                                 ELSE IF code < 200 \/ code >= 300
                                      THEN Raised("HTTPError")
                                      ELSE Raised("RuntimeError")]
               /\ UNCHANGED handler
    /\ UNCHANGED <<files, dirExists, args, adaptor, hist, prevFresh>>

\* f = NamedTemporaryFile("wb", delete=False)
CreateTemp(p) ==
    /\ pc[p] = "tmp"
    /\ files' = [files EXCEPT ![TempFileName(p)] = Some(File(handler[p][1], 0))]
    /\ pc' = [pc EXCEPT ![p] = "write"]
    /\ io' = [io EXCEPT ![p] = @ \cup {"fs"}]
    /\ UNCHANGED <<dirExists, args, handler, outcome, adaptor, gets, hist, prevFresh>>

\* f.write(handler.read()): the body reaches the file piece by piece
Write(p) ==
    /\ pc[p] = "write"
    /\ LET f == files[TempFileName(p)][1]
       IN  /\ files' = [files EXCEPT ![TempFileName(p)] =
                           Some(File(f.rows, f.written + 1))]
           /\ pc' = [pc EXCEPT ![p] =
                        IF f.written + 1 = NChunks THEN "sync" ELSE "write"]
    /\ UNCHANGED <<dirExists, args, handler, outcome, adaptor, gets, hist, io,
                   prevFresh>>

\* f.flush(); os.fsync(f.fileno()); f.close()
Sync(p) ==
    /\ pc[p] = "sync"
    /\ pc' = [pc EXCEPT ![p] = "rename"]
    /\ UNCHANGED <<files, dirExists, args, handler, outcome, adaptor, gets,
                   hist, io, prevFresh>>

\* os.rename(f.name, filename); return filename
\* The rename replaces the target in one step. It raises OSError when the
\* root directory is missing or the temporary file is on another device.
Rename(p) ==
    /\ pc[p] = "rename"
    /\ \/ /\ dirExists
          /\ files' = [n \in FileNames |->
                          IF n = Target THEN files[TempFileName(p)]
                          ELSE IF n = TempFileName(p) THEN None
                          ELSE files[n]]
          /\ pc' = [pc EXCEPT ![p] = AfterDownload(op[p])]
          /\ outcome' = [outcome EXCEPT ![p] =
                            IF op[p] = "get_quad_coeffs" THEN NoOutcome
                            ELSE Returned("path", Target)]
          /\ adaptor' = [adaptor EXCEPT ![p] = @ \/ op[p] = "download_database"]
       \/ /\ pc' = [pc EXCEPT ![p] = "done"]
          /\ outcome' = [outcome EXCEPT ![p] = Raised("OSError")]
          /\ UNCHANGED <<files, adaptor>>
    /\ UNCHANGED <<dirExists, args, handler, gets, hist, io, prevFresh>>

\* ------------------------------------------------- LDCoeffAdaptor.get_coeffs
\* a.get_coeffs(teff, logg=logg, feh=feh) on an adaptor built earlier
CallGetCoeffs(p, q) ==
    /\ pc[p] = "idle"
    /\ adaptor[p]
    /\ op' = [op EXCEPT ![p] = "get_coeffs"]
    /\ query' = [query EXCEPT ![p] = q]
    /\ pc' = [pc EXCEPT ![p] = "get_coeffs"]
    /\ sawFile' = [sawFile EXCEPT ![p] = files[Target] # None]
    /\ startTarget' = [startTarget EXCEPT ![p] = files[Target]]
    /\ UNCHANGED <<files, dirExists, clobber, handler, outcome, adaptor, gets,
                   mkdirErr, io, prevFresh>>

\* assert teff is not None
AssertPasses(q) == q.teff # None

AssertTeff(p) ==
    /\ pc[p] = "get_coeffs"
    /\ IF AssertPasses(query[p])
       THEN /\ pc' = [pc EXCEPT ![p] = "query"]
            /\ UNCHANGED outcome
       ELSE /\ pc' = [pc EXCEPT ![p] = "done"]
            /\ outcome' = [outcome EXCEPT ![p] = Raised("AssertionError")]
    /\ UNCHANGED <<files, dirExists, args, handler, adaptor, gets, hist, io,
                   prevFresh>>

\* mu1, mu2 = rows.fetchone(); return mu1, mu2
\* Unpacking the None of an empty result raises TypeError.
UnpackNoneAsPair(rows, r) == Returned("coeffs", <<None, None>>)
Unpack(rows, r) ==
    IF r = None THEN Raised("TypeError")
    ELSE Returned("coeffs", <<rows[r[1]].mu1, rows[r[1]].mu2>>)

\* with sqlite3.connect(self.db_filename) as conn: ... c.execute(q, pars)
\* connect creates a zero-length file when there is none; a zero-length
\* file has no table claret11 and a truncated one is not a database.
RunQuery(p) ==
    /\ pc[p] = "query"
    /\ io' = [io EXCEPT ![p] = @ \cup {"db"}]
    /\ pc' = [pc EXCEPT ![p] = "done"]
    /\ IF files[Target] = None
       THEN /\ files' = [files EXCEPT ![Target] = Some(File(<< >>, 0))]
            /\ outcome' = [outcome EXCEPT ![p] = Raised("OperationalError")]
       ELSE LET f == files[Target][1]
            IN  /\ UNCHANGED files
                /\ outcome' = [outcome EXCEPT ![p] =
                      IF f.written = 0 THEN Raised("OperationalError")
                      ELSE IF ~IsComplete(f) THEN Raised("DatabaseError")
                      ELSE Unpack(f.rows, FetchOne(f.rows, query[p]))]
    /\ UNCHANGED <<dirExists, args, handler, adaptor, gets, hist, prevFresh>>

\* ------------------------------------------------------------ environment
\* The process is killed in the middle of a call. Nothing it holds in
\* memory survives; the files stay as they are.
Crash(p) ==
    /\ pc[p] \notin {"idle", "done"}
    /\ pc' = [pc EXCEPT ![p] = "done"]
    /\ outcome' = [outcome EXCEPT ![p] = Raised("killed")]
    /\ adaptor' = [adaptor EXCEPT ![p] = FALSE]
    /\ UNCHANGED <<files, dirExists, args, handler, gets, hist, io, prevFresh>>

\* The caller has seen the outcome; the locals of the call are dropped. A
\* temporary file left behind by a failed call keeps its name for ever and
\* no later call uses that name, so it leaves the model here.
Finish(p) ==
    /\ pc[p] = "done"
    /\ prevFresh' = IF /\ op[p] = "download_database"
                       /\ ~clobber[p]
                       /\ ~sawFile[p]
                       /\ outcome[p].kind = "path"
                    THEN Some(outcome[p].val) ELSE None
    /\ pc' = [pc EXCEPT ![p] = "idle"]
    /\ op' = [op EXCEPT ![p] = "none"]
    /\ clobber' = [clobber EXCEPT ![p] = FALSE]
    /\ query' = [query EXCEPT ![p] = Query(None, None, None)]
    /\ handler' = [handler EXCEPT ![p] = None]
    /\ outcome' = [outcome EXCEPT ![p] = NoOutcome]
    /\ gets' = [gets EXCEPT ![p] = 0]
    /\ sawFile' = [sawFile EXCEPT ![p] = FALSE]
    /\ startTarget' = [startTarget EXCEPT ![p] = None]
    /\ mkdirErr' = [mkdirErr EXCEPT ![p] = "none"]
    /\ io' = [io EXCEPT ![p] = {}]
    /\ files' = [n \in FileNames |->
                    IF n = TempFileName(p) THEN None ELSE files[n]]
    /\ UNCHANGED <<dirExists, adaptor>>

\* ---------------------------------------------------------- specifications
Step(p) ==
    \/ \E c \in BOOLEAN : CallDownload(p, c)
    \/ \E q \in ProvQueries : CallQuad(p, q)
    \/ \E q \in ProvQueries : CallGetCoeffs(p, q)
    \/ Makedirs(p)
    \/ Fetch(p)
    \/ CreateTemp(p)
    \/ Write(p)
    \/ Sync(p)
    \/ Rename(p)
    \/ AssertTeff(p)
    \/ RunQuery(p)
    \/ Crash(p)
    \/ Finish(p)

\* Processes run their calls concurrently on the shared root.
Next == \E p \in Procs : Step(p)

Spec == Init /\ [][Next]_vars

\* Calls follow one another: a process steps only while no other process
\* is inside a call.
NextSeq == \E p \in Procs : (\A o \in Procs \ {p} : pc[o] = "idle") /\ Step(p)

SpecSeq == Init /\ [][NextSeq]_vars

\* Lookups on an arbitrary complete table: the file is in place and every
\* process holds an adaptor.
InitLookup ==
    /\ InitProcs
    /\ dirExists = TRUE
    /\ \E t \in AllTables :
          files = [n \in FileNames |-> IF n = Target THEN Some(CompleteFile(t)) ELSE None]
    /\ adaptor = [p \in Procs |-> TRUE]

NextLookup ==
    \E p \in Procs :
        /\ \A o \in Procs \ {p} : pc[o] = "idle"
        /\ \/ \E q \in AllQueries : CallGetCoeffs(p, q)
           \/ AssertTeff(p)
           \/ RunQuery(p)
           \/ Finish(p)

SpecLookup == InitLookup /\ [][NextLookup]_vars

TypeOK ==
    /\ dirExists \in BOOLEAN
    /\ \A p \in Procs : gets[p] \in 0..MaxGets /\ io[p] \subseteq {"fs", "net", "db"}

\* ------------------------------------------------------------------ claims
Abs(x) == IF x < 0 THEN 0 - x ELSE x
Sq(x) == x * x
TargetRows == files[Target][1].rows
FinishedLookup(p) ==
    /\ pc[p] = "done"
    /\ op[p] = "get_coeffs"
    /\ outcome[p].kind # "killed"
    /\ query[p].teff # None

\* C1: a provisioning call issues the GET exactly when clobber is true or no
\* file was at the target when the call started; and an unforced call that
\* follows an unforced download into an empty root issues no GET and returns
\* the same path as that download.
C1_GetIffForcedOrMissing ==
    \A p \in Procs : (op[p] \in Provisioning) =>
        /\ (gets[p] >= 1) => (clobber[p] \/ ~sawFile[p])
        /\ (pc[p] \notin {"idle", "mkdir", "fetch"} /\ outcome[p].kind # "killed")
              => (gets[p] = 1 <=> (clobber[p] \/ ~sawFile[p]))
        /\ (prevFresh # None /\ op[p] = "download_database" /\ ~clobber[p])
              => /\ pc[p] = "done"
                 /\ gets[p] = 0
                 /\ io[p] \cap {"net"} = {}
                 /\ outcome[p] = Returned("path", prevFresh[1])

C1_Witness ==
    \E p \in Procs :
        /\ prevFresh # None
        /\ op[p] = "download_database"
        /\ ~clobber[p]
        /\ pc[p] = "done"
        /\ outcome[p].kind = "path"

\* C2: while a provisioning call runs, and after it was killed at any step,
\* the target is the file that was there when the call started (possibly no
\* file) or the complete body the call downloaded; it is never partial.
C2_CrashLeavesOldOrNew ==
    /\ files[Target] # None => IsComplete(files[Target][1])
    /\ \A p \in Procs : (pc[p] # "idle" /\ op[p] \in Provisioning) =>
          \/ files[Target] = startTarget[p]
          \/ /\ handler[p] # None
             /\ files[Target] = Some(CompleteFile(handler[p][1]))

C2_Witness ==
    \E p \in Procs :
        /\ outcome[p].kind = "killed"
        /\ clobber[p]
        /\ startTarget[p] # None
        /\ files[TempFileName(p)] # None
        /\ files[TempFileName(p)][1].written \in 1..(NChunks - 1)
        /\ files[Target] = startTarget[p]

\* C3: a lookup with teff, logg and feh present on a non-empty table returns
\* the pair of a row whose teff is nearest to the query teff and which is
\* nearest in (logg, feh) among the rows of that teff; a query teff that is
\* in the table is matched exactly.
C3_TwoStageNearest ==
    \A p \in Procs :
        (/\ FinishedLookup(p)
         /\ query[p].logg # None /\ query[p].feh # None
         /\ Len(TargetRows) > 0)
        => LET rows == TargetRows
               qt == query[p].teff[1]
               ql == query[p].logg[1]
               qf == query[p].feh[1]
               d(i) == Sq(rows[i].logg - ql) + Sq(rows[i].feh - qf)
           IN  /\ outcome[p].kind = "coeffs"
               /\ \E r \in 1..Len(rows) :
                     /\ outcome[p].val = <<rows[r].mu1, rows[r].mu2>>
                     /\ \A j \in 1..Len(rows) :
                           Abs(rows[r].teff - qt) <= Abs(rows[j].teff - qt)
                     /\ \A j \in 1..Len(rows) :
                           (rows[j].teff = rows[r].teff) => d(r) <= d(j)
                     /\ (\E j \in 1..Len(rows) : rows[j].teff = qt)
                           => rows[r].teff = qt

C3_Witness ==
    \E p \in Procs :
        /\ FinishedLookup(p)
        /\ query[p].logg # None /\ query[p].feh # None
        /\ outcome[p].kind = "coeffs"
        /\ Len(TargetRows) >= 3
        /\ outcome[p].val[1] = 3
        /\ TargetRows[1].teff = TargetRows[3].teff
        /\ TargetRows[2].teff # TargetRows[3].teff
        /\ TargetRows[2].teff # query[p].teff[1]

\* C4: a request without teff fails before the call has attempted any I/O,
\* through get_coeffs and through get_quad_coeffs alike.
C4_NoIoBeforeInvalidQuery ==
    \A p \in Procs :
        (op[p] \in {"get_coeffs", "get_quad_coeffs"} /\ query[p].teff = None)
        => /\ io[p] = {}
           /\ gets[p] = 0
           /\ pc[p] \in {"get_coeffs", "done"}
           /\ (pc[p] = "done" => outcome[p].kind \in {"AssertionError", "killed"})

\* C5: a call whose GET was answered with a status other than 200 ends with
\* a download error after exactly one GET, with the target as it was when
\* the call started and no file written.
C5_Non200FailsOnceUntouched ==
    \A p \in Procs :
        /\ (outcome[p].kind \in {"RuntimeError", "HTTPError"}) =>
              /\ pc[p] = "done"
              /\ gets[p] = 1
              /\ files[Target] = startTarget[p]
              /\ files[TempFileName(p)] = None
        /\ (pc[p] = "fetch") => gets[p] = 0

C5_Witness ==
    \E p \in Procs :
        /\ outcome[p].kind = "RuntimeError"
        /\ clobber[p]
        /\ startTarget[p] # None
        /\ files[Target] = startTarget[p]

\* C6: with processes provisioning concurrently, the target is absent or one
\* complete served body, and the temporary file of a process holds only what
\* that process has written of its own body.
C6_ConcurrentNeverPartial ==
    /\ files[Target] # None =>
          /\ IsComplete(files[Target][1])
          /\ files[Target][1].rows \in ServedTables
    /\ \A q \in Procs : files[TempFileName(q)] # None =>
          /\ pc[q] \in {"write", "sync", "rename", "done"}
          /\ handler[q] # None
          /\ files[TempFileName(q)][1].rows = handler[q][1]
          /\ (pc[q] \in {"sync", "rename"}) => IsComplete(files[TempFileName(q)][1])
          /\ (pc[q] = "write") => ~IsComplete(files[TempFileName(q)][1])

C6_Witness ==
    \E p \in Procs, q \in Procs :
        /\ p # q
        /\ ~clobber[p] /\ ~clobber[q]
        /\ gets[p] = 1 /\ gets[q] = 1
        /\ pc[p] = "done" /\ outcome[p].kind = "path"
        /\ startTarget[p] = None /\ startTarget[q] = None
        /\ pc[q] = "write"
        /\ files[TempFileName(q)][1].written \in 1..(NChunks - 1)
        /\ handler[q] # handler[p]
        /\ files[Target] = Some(CompleteFile(handler[p][1]))

\* C7: in a sequence of calls, a target that is present changes only in the
\* rename of a call made with clobber, and an unforced call that found the
\* file issues no GET.
C7_PresentFileOnlyClobbered ==
    [][ /\ (files[Target] # None /\ files'[Target] # files[Target]) =>
              \E p \in Procs : pc[p] = "rename" /\ clobber[p] /\ pc'[p] = "done"
        /\ \A p \in Procs :
              (op'[p] \in Provisioning /\ ~clobber'[p] /\ sawFile'[p]) => gets'[p] = 0
      ]_vars

C7_Witness ==
    \E p \in Procs :
        /\ op[p] = "get_quad_coeffs"
        /\ pc[p] = "done"
        /\ sawFile[p]
        /\ outcome[p].kind = "coeffs"
        /\ files[Target] = startTarget[p]
        /\ adaptor[p]

\* C8: a lookup on a file whose table is empty ends in an error raised to
\* the caller; it returns no pair, present or null.
C8_EmptyTableRaises ==
    \A p \in Procs :
        (FinishedLookup(p) /\ Len(TargetRows) = 0)
        => /\ outcome[p].kind = "TypeError"
           /\ outcome[p].val = << >>

C8_Witness ==
    \E p \in Procs :
        /\ FinishedLookup(p)
        /\ Len(TargetRows) = 0
        /\ query[p].logg # None
        /\ outcome[p].kind = "TypeError"

\* C9: once os.makedirs has failed for a reason other than the directory
\* existing, the call has ended with a filesystem error, without a GET and
\* without writing a file.
C9_MkdirFailureIsFatal ==
    \A p \in Procs :
        (mkdirErr[p] = "EACCES")
        => /\ pc[p] = "done"
           /\ outcome[p].kind \in {"OSError", "killed"}
           /\ gets[p] = 0
           /\ files[TempFileName(p)] = None

\* C10: a lookup with teff present and logg or feh absent on a non-empty
\* table succeeds and returns the pair of the first row in storage order
\* among the rows of the nearest teff, whatever their logg and feh.
C10_NullDistanceFirstRow ==
    \A p \in Procs :
        (/\ FinishedLookup(p)
         /\ (query[p].logg = None \/ query[p].feh = None)
         /\ Len(TargetRows) > 0)
        => LET rows == TargetRows
               qt == query[p].teff[1]
           IN  /\ outcome[p].kind = "coeffs"
               /\ \E r \in 1..Len(rows) :
                     /\ outcome[p].val = <<rows[r].mu1, rows[r].mu2>>
                     /\ \A j \in 1..Len(rows) :
                           Abs(rows[r].teff - qt) <= Abs(rows[j].teff - qt)
                     /\ \A j \in 1..(r - 1) : rows[j].teff # rows[r].teff

C10_Witness ==
    \E p \in Procs :
        /\ FinishedLookup(p)
        /\ query[p].logg = None /\ query[p].feh # None
        /\ outcome[p].kind = "coeffs"
        /\ Len(TargetRows) >= 2
        /\ \E r \in 1..Len(TargetRows), j \in 1..Len(TargetRows) :
              /\ outcome[p].val = <<TargetRows[r].mu1, TargetRows[r].mu2>>
              /\ TargetRows[j].teff = TargetRows[r].teff
              /\ TargetRows[j].feh = query[p].feh[1]
              /\ TargetRows[r].feh # query[p].feh[1]

====
